---- MODULE Spec2Model ----
(***************************************************************************)
(* A model of the fixed-size thread pool of bbkgl/ThreadPool.               *)
(*                                                                         *)
(* The pool (class ThreadPool) is one mutex-protected queue of task         *)
(* closures, a condition variable, a stop flag and a vector of worker       *)
(* threads.  Every statement of the worker loop, of enqueue and of the      *)
(* destructor that takes or releases queue_mutex, waits on or notifies      *)
(* the condition, or runs a task is one action, so every interleaving of    *)
(* the threads the C++ memory model allows for this code is a behaviour.    *)
(*                                                                         *)
(* Three client programs drive the pool:                                    *)
(*   "harness"  any callers, concurrently, enqueue tasks that return or     *)
(*              throw, read the futures, and destroy the pool at any time;  *)
(*   "example"  main() of example.cpp;                                      *)
(*   "nested"   a client that enqueues one task whose body calls enqueue    *)
(*              on the same pool for the next task, whose body does the     *)
(*              same, and so on; the client reads the futures and           *)
(*              destroys the pool at any time.                              *)
(***************************************************************************)
EXTENDS Naturals, Sequences, FiniteSets

\* ------------------------------------------------------------- bounds
\* The size of the largest harness run: the worker count passed to the
\* constructor plus the number of enqueue calls made.
MaxLoad == 4
\* The same for the harness runs checked under fair scheduling.
LiveLoad == 3

\* ------------------------------------------------- program constants
\* example.cpp: ThreadPool pool(4)
ExampleThreads == 4
\* example.cpp: f(1) .. f(4) are enqueued
ExampleTasks == 4
\* example.cpp: f sleeps when a <= 2
SleepLimit == 2

VARIABLES
    prog,       \* the client program: "harness" or "example"
    threads,    \* the constructor's argument
    calls,      \* the number of enqueue calls the client program makes
    stop,       \* ThreadPool::stop
    tasks,      \* ThreadPool::tasks, a queue of task ids
    mutex,      \* the holder of ThreadPool::queue_mutex, or Free
    pc,         \* each worker's position in its loop
    wtask,      \* each worker's local std::function task (0: empty)
    call,       \* the position, or the outcome, of each task's enqueue call
    dpc,        \* the destructor's position
    joined,     \* the number of workers the destructor has joined
    future,     \* each packaged_task's shared state
    got,        \* what get() on each returned future returned
    \* history, written and never read by the program
    execLog,    \* the tasks in the order their callables ran
    before      \* for each task, the tasks whose enqueue had returned a
                \* handle when its own enqueue call started

vars == <<prog, threads, calls, stop, tasks, mutex, pc, wtask, call, dpc, joined,
          future, got, execLog, before>>

clientVars == <<prog, threads, calls>>
poolVars == <<stop, tasks, mutex>>
workerVars == <<pc, wtask>>
dtorVars == <<dpc, joined>>

\* ------------------------------------------------------------ values
\* A faulty constructor, which C11 must tell from the real one: asked for
\* no worker, it starts one.
WorkersAtLeastOne == 1..(IF threads = 0 THEN 1 ELSE threads)

Workers == 1..threads
TaskBound == IF MaxLoad > ExampleTasks THEN MaxLoad ELSE ExampleTasks
TaskIds == 1..TaskBound
WorkerBound == IF MaxLoad > ExampleThreads THEN MaxLoad ELSE ExampleThreads

Free == <<>>
Worker(w) == <<"worker", w>>
Caller(t) == <<"caller", t>>
Dtor == <<"dtor">>

\* The shared state of a packaged_task: no state before make_shared,
\* pending after it, then a value or a stored exception.
NoFuture == [state |-> "none", val |-> 0]
Pending == [state |-> "pending", val |-> 0]
Value(v) == [state |-> "value", val |-> v]
Failure(v) == [state |-> "failure", val |-> v]

\* Every task is bound to its own id as the argument: f(1), f(2), ...
\* example.cpp: f sleeps first when a <= 2, and returns a.
Sleeps(a) == prog = "example" /\ a <= SleepLimit

\* Whether the body of task a has come to its end: a body of the nested
\* program calls enqueue for the next task first, and ends when that call
\* has returned or thrown.
BodyDone(a) ==
    (prog = "nested" /\ a < calls) => call[a + 1] \in {"handle", "PoolClosed"}

\* What a callable may do: f of example.cpp returns its argument; the
\* callables of the harness return their argument or throw; a callable of
\* the nested program returns its argument unless its own enqueue call
\* threw, and then that exception leaves it.
Outcomes(a) ==
    CASE prog = "example" -> {Value(a)}
      [] prog = "harness" -> {Value(a), Failure(a)}
      [] prog = "nested" ->
            IF a < calls /\ call[a + 1] = "PoolClosed"
            THEN {Failure(a)} ELSE {Value(a)}

\* Faulty variants of the queue, which C1, C2 and C8 must tell from the
\* real one: a pop that removes nothing, an emplace at the front, a front
\* that hands out the back element.
popKeeps(q) == q
emplaceFront(q, t) == <<t>> \o q
frontBack(q) == q[Len(q)]

\* A faulty emplace, which C15 must tell from the real one: it puts the
\* closure on the queue twice.
emplaceTwice(q, t) == Append(Append(q, t), t)

\* std::queue: emplace at the back, front and pop at the front.
emplace(q, t) == Append(q, t)
front(q) == Head(q)
pop(q) == Tail(q)

\* The workers blocked in condition.wait.
Waiting == {w \in Workers : pc[w] = "waiting"}

\* The enqueue calls that have started and not ended.
InFlight == {t \in TaskIds : call[t] \in {"lock", "crit", "notify"}}

\* The tasks enqueue has put on the queue.
Accepted == {t \in TaskIds : call[t] \in {"notify", "handle"}}

\* The tasks on the queue, in a worker's hands, and run.
Queued == {tasks[i] : i \in DOMAIN tasks}
Executing == {wtask[w] : w \in {v \in Workers : pc[v] \in {"exec", "slept"}}}
ExecCount(t) == Cardinality({i \in DOMAIN execLog : execLog[i] = t})

\* ---------------------------------------------------------------- Init
\* ThreadPool::ThreadPool: stop(false), an empty queue, `threads` workers
\* started at the top of their loop.
InitLoad(load) ==
    /\ \/ /\ prog = "harness"
          /\ threads \in 0..load
          /\ calls = load - threads
       \/ /\ prog = "example"
          /\ threads = ExampleThreads
          /\ calls = ExampleTasks
       \/ /\ prog = "nested"
          /\ threads \in 1..load
          /\ calls = load - threads
    /\ stop = FALSE
    /\ tasks = <<>>
    /\ mutex = Free
    /\ pc = [w \in Workers |-> "lock"]
    /\ wtask = [w \in Workers |-> 0]
    /\ call = [t \in TaskIds |-> "none"]
    /\ dpc = "alive"
    /\ joined = 0
    /\ future = [t \in TaskIds |-> NoFuture]
    /\ got = [t \in TaskIds |-> NoFuture]
    /\ execLog = <<>>
    /\ before = [t \in TaskIds |-> {}]

Init == InitLoad(MaxLoad)

\* The runs checked under fair scheduling.
LiveInit == InitLoad(LiveLoad)

\* -------------------------------------------------------- worker loop
\* std::unique_lock<std::mutex> lock(this->queue_mutex)
WLock(w) ==
    /\ pc[w] = "lock"
    /\ mutex = Free
    /\ mutex' = Worker(w)
    /\ pc' = [pc EXCEPT ![w] = "check"]
    /\ UNCHANGED <<clientVars, stop, tasks, wtask, call, dtorVars,
                   future, got, execLog, before>>

\* The predicate of condition.wait.
WakePredicate == stop \/ tasks # <<>>

\* A faulty exit test, which C4 must tell from the real one: the worker
\* leaves as soon as the stop flag is set.
ExitOnStop == stop

\* if (this->stop && this->tasks.empty()) return;
ExitCondition == stop /\ tasks = <<>>

\* A faulty wait, which C13 must tell from the real one: condition.wait
\* without a predicate, which blocks whatever the queue holds.
WWaitNoPredicate(w) ==
    /\ pc[w] = "check"
    /\ mutex' = Free
    /\ pc' = [pc EXCEPT ![w] = "waiting"]
    /\ UNCHANGED <<clientVars, stop, tasks, wtask, call, dtorVars,
                   future, got, execLog, before>>

\* condition.wait with a false predicate: release the mutex and block.
WWait(w) ==
    /\ pc[w] = "check"
    /\ ~WakePredicate
    /\ mutex' = Free
    /\ pc' = [pc EXCEPT ![w] = "waiting"]
    /\ UNCHANGED <<clientVars, stop, tasks, wtask, call, dtorVars,
                   future, got, execLog, before>>

\* A wakeup no notify caused.
WSpurious(w) ==
    /\ pc[w] = "waiting"
    /\ pc' = [pc EXCEPT ![w] = "woken"]
    /\ UNCHANGED <<clientVars, poolVars, wtask, call, dtorVars,
                   future, got, execLog, before>>

\* A woken worker takes the mutex again inside condition.wait and
\* evaluates the predicate again.
WReacquire(w) ==
    /\ pc[w] = "woken"
    /\ mutex = Free
    /\ mutex' = Worker(w)
    /\ pc' = [pc EXCEPT ![w] = "check"]
    /\ UNCHANGED <<clientVars, stop, tasks, wtask, call, dtorVars,
                   future, got, execLog, before>>

\* A faulty exit, which C12 must tell from the real one: the worker
\* returns once the stop flag is set, whatever is on the queue.
WReturnOnStop(w) ==
    /\ pc[w] = "check"
    /\ stop
    /\ mutex' = Free
    /\ pc' = [pc EXCEPT ![w] = "terminated"]
    /\ UNCHANGED <<clientVars, stop, tasks, wtask, call, dtorVars,
                   future, got, execLog, before>>

\* The predicate holds and the pool is stopped and drained: the worker
\* returns from its thread function, which unlocks the mutex.
WReturn(w) ==
    /\ pc[w] = "check"
    /\ WakePredicate
    /\ ExitCondition
    /\ mutex' = Free
    /\ pc' = [pc EXCEPT ![w] = "terminated"]
    /\ UNCHANGED <<clientVars, stop, tasks, wtask, call, dtorVars,
                   future, got, execLog, before>>

\* A faulty dequeue, which C18 must tell from the real one: the locked
\* block does not end before task(), so the worker keeps the mutex.
WDequeueKeepsMutex(w) ==
    /\ pc[w] = "check"
    /\ WakePredicate
    /\ ~ExitCondition
    /\ wtask' = [wtask EXCEPT ![w] = front(tasks)]
    /\ tasks' = pop(tasks)
    /\ pc' = [pc EXCEPT ![w] = "exec"]
    /\ UNCHANGED <<clientVars, stop, mutex, call, dtorVars, future, got,
                   execLog, before>>

\* task = std::move(tasks.front()); tasks.pop(); and the end of the
\* locked block.
WDequeue(w) ==
    /\ pc[w] = "check"
    /\ WakePredicate
    /\ ~ExitCondition
    /\ wtask' = [wtask EXCEPT ![w] = front(tasks)]
    /\ tasks' = pop(tasks)
    /\ mutex' = Free
    /\ pc' = [pc EXCEPT ![w] = "exec"]
    /\ UNCHANGED <<clientVars, stop, call, dtorVars, future, got,
                   execLog, before>>

\* task() of a callable that sleeps first.
WSleep(w) ==
    /\ pc[w] = "exec"
    /\ Sleeps(wtask[w])
    /\ pc' = [pc EXCEPT ![w] = "slept"]
    /\ UNCHANGED <<clientVars, poolVars, wtask, call, dtorVars,
                   future, got, execLog, before>>

\* A faulty packaged_task, which C7 must tell from the real one: every
\* closure stores its result in the shared state of the first task.
SetResultFirst(t, r) == [future EXCEPT ![1] = r]

\* The shared state after the packaged_task of task t has stored r, the
\* value its callable returned or the exception it threw.
SetResult(t, r) == [future EXCEPT ![t] = r]

\* A faulty task(), which C6 must tell from the real one: an exception of
\* the callable ends the worker's thread function.
WTaskEscapes(w) ==
    /\ \/ pc[w] = "exec" /\ ~Sleeps(wtask[w])
       \/ pc[w] = "slept"
    /\ BodyDone(wtask[w])
    /\ execLog' = Append(execLog, wtask[w])
    /\ \E r \in Outcomes(wtask[w]) :
          /\ future' = [future EXCEPT ![wtask[w]] = r]
          /\ pc' = [pc EXCEPT ![w] =
                       IF r.state = "failure" THEN "terminated" ELSE "lock"]
    /\ wtask' = [wtask EXCEPT ![w] = 0]
    /\ UNCHANGED <<clientVars, poolVars, call, dtorVars, got,
                   before>>

\* A faulty task(), which C17 must tell from the real one: the worker
\* leaves its loop after the task instead of going round it.
WTaskOnce(w) ==
    /\ \/ pc[w] = "exec" /\ ~Sleeps(wtask[w])
       \/ pc[w] = "slept"
    /\ BodyDone(wtask[w])
    /\ execLog' = Append(execLog, wtask[w])
    /\ \E r \in Outcomes(wtask[w]) :
          future' = [future EXCEPT ![wtask[w]] = r]
    /\ wtask' = [wtask EXCEPT ![w] = 0]
    /\ pc' = [pc EXCEPT ![w] = "terminated"]
    /\ UNCHANGED <<clientVars, poolVars, call, dtorVars, got,
                   before>>

\* task(): the packaged_task runs the callable and stores its value or
\* its exception in its own shared state; the worker goes on to the next
\* iteration of its loop.
WTask(w) ==
    /\ \/ pc[w] = "exec" /\ ~Sleeps(wtask[w])
       \/ pc[w] = "slept"
    /\ BodyDone(wtask[w])
    /\ execLog' = Append(execLog, wtask[w])
    /\ \E r \in Outcomes(wtask[w]) : future' = SetResult(wtask[w], r)
    /\ wtask' = [wtask EXCEPT ![w] = 0]
    /\ pc' = [pc EXCEPT ![w] = "lock"]
    /\ UNCHANGED <<clientVars, poolVars, call, dtorVars, got,
                   before>>

WorkerStep(w) ==
    \/ WLock(w)
    \/ WWait(w)
    \/ WSpurious(w)
    \/ WReacquire(w)
    \/ WReturn(w)
    \/ WDequeue(w)
    \/ WSleep(w)
    \/ WTask(w)

\* ------------------------------------------------------------- enqueue
\* Whether the client program starts an enqueue call for task t now:
\* main() of example.cpp makes its four calls one after another; the
\* harness makes each call from a thread of its own, at any time; in the
\* nested program the client makes the first call and the running body of
\* each task the next one.
ClientCalls(t) ==
    /\ t <= calls
    /\ prog = "example" => InFlight = {}
    /\ prog = "nested" => t = 1 \/ (t - 1) \in Executing

\* The head of enqueue: make_shared<packaged_task>(bind(f, args...)) and
\* task->get_future().  The pool object must still exist.  The tasks are
\* numbered in the order of these calls.
EnqStart(t) ==
    /\ call[t] = "none"
    /\ \A u \in 1..(t - 1) : call[u] # "none"
    /\ dpc # "returned"
    /\ ClientCalls(t)
    /\ future' = [future EXCEPT ![t] = Pending]
    /\ before' = [before EXCEPT ![t] = {u \in TaskIds : call[u] = "handle"}]
    /\ call' = [call EXCEPT ![t] = "lock"]
    /\ UNCHANGED <<clientVars, poolVars, workerVars, dtorVars, got,
                   execLog>>

\* std::unique_lock<std::mutex> lock(queue_mutex)
EnqLock(t) ==
    /\ call[t] = "lock"
    /\ mutex = Free
    /\ mutex' = Caller(t)
    /\ call' = [call EXCEPT ![t] = "crit"]
    /\ UNCHANGED <<clientVars, stop, tasks, workerVars, dtorVars, future,
                   got, execLog, before>>

\* if (stop) throw std::runtime_error(...): unwinding unlocks the mutex
\* and destroys the future and the packaged_task.
EnqThrow(t) ==
    /\ call[t] = "crit"
    /\ stop
    /\ call' = [call EXCEPT ![t] = "PoolClosed"]
    /\ future' = [future EXCEPT ![t] = NoFuture]
    /\ mutex' = Free
    /\ UNCHANGED <<clientVars, stop, tasks, workerVars, dtorVars, got,
                   execLog, before>>

\* A faulty enqueue, which C3 must tell from the real one: the item is
\* pushed whatever the stop flag says.
EnqEmplaceUnchecked(t) ==
    /\ call[t] = "crit"
    /\ tasks' = emplace(tasks, t)
    /\ mutex' = Free
    /\ call' = [call EXCEPT ![t] = "notify"]
    /\ UNCHANGED <<clientVars, stop, workerVars, dtorVars, future, got,
                   execLog, before>>

\* tasks.emplace([task]() { (*task)(); }) and the end of the locked block.
EnqEmplace(t) ==
    /\ call[t] = "crit"
    /\ ~stop
    /\ tasks' = emplace(tasks, t)
    /\ mutex' = Free
    /\ call' = [call EXCEPT ![t] = "notify"]
    /\ UNCHANGED <<clientVars, stop, workerVars, dtorVars, future, got,
                   execLog, before>>

\* A faulty notify_one, which C5 must tell from the real one: it wakes
\* nobody.
notifyNobody == pc' = pc

\* condition.notify_one(): one of the workers blocked in wait, if there
\* is one, is woken.
notify_one ==
    \/ Waiting = {} /\ pc' = pc
    \/ \E w \in Waiting : pc' = [pc EXCEPT ![w] = "woken"]

\* condition.notify_one(); return res;
EnqNotify(t) ==
    /\ call[t] = "notify"
    /\ notify_one
    /\ call' = [call EXCEPT ![t] = "handle"]
    /\ UNCHANGED <<clientVars, poolVars, wtask, dtorVars, future, got,
                   execLog, before>>

Enqueue(t) ==
    \/ EnqStart(t)
    \/ EnqLock(t)
    \/ EnqThrow(t)
    \/ EnqEmplace(t)
    \/ EnqNotify(t)

\* ---------------------------------------------------------- future::get
\* The futures the client reads at this point: the harness any future it
\* holds; main() of example.cpp only ret, after its four enqueue calls.
ClientReads(t) ==
    prog = "example" => t = 1 /\ call[ExampleTasks] = "handle"

\* get() on a future enqueue returned: blocks while the shared state is
\* pending, then hands out what it holds.
Get(t) ==
    /\ call[t] = "handle"
    /\ got[t] = NoFuture
    /\ ClientReads(t)
    /\ future[t].state # "pending"
    /\ got' = [got EXCEPT ![t] = future[t]]
    /\ UNCHANGED <<clientVars, poolVars, workerVars, call, dtorVars,
                   future, execLog, before>>

\* ------------------------------------------------------------ destructor
\* The harness destroys the pool at any time; main() of example.cpp at
\* its end, after ret.get().
ClientDestroys ==
    prog = "example" => got[1] # NoFuture

\* A faulty destructor, which C14 must tell from the real one: it goes on
\* to set the stop flag without taking the mutex.
DtorLockNoMutex ==
    /\ dpc = "alive"
    /\ ClientDestroys
    /\ dpc' = "locked"
    /\ UNCHANGED <<clientVars, poolVars, workerVars, call, joined,
                   future, got, execLog, before>>

\* ~ThreadPool: std::unique_lock<std::mutex> lock(queue_mutex)
DtorLock ==
    /\ dpc = "alive"
    /\ ClientDestroys
    /\ mutex = Free
    /\ mutex' = Dtor
    /\ dpc' = "locked"
    /\ UNCHANGED <<clientVars, stop, tasks, workerVars, call, joined,
                   future, got, execLog, before>>

\* stop = true; and the end of the locked block.
DtorStop ==
    /\ dpc = "locked"
    /\ stop' = TRUE
    /\ mutex' = Free
    /\ dpc' = "notify"
    /\ UNCHANGED <<clientVars, tasks, workerVars, call, joined,
                   future, got, execLog, before>>

\* A faulty notify_all, which C10 must tell from the real one: it wakes
\* one worker only.
notifyAllWakesOne ==
    \/ Waiting = {} /\ pc' = pc
    \/ \E w \in Waiting : pc' = [pc EXCEPT ![w] = "woken"]

\* condition.notify_all(): every worker blocked in wait is woken.
notify_all ==
    pc' = [w \in Workers |-> IF pc[w] = "waiting" THEN "woken" ELSE pc[w]]

DtorNotifyAll ==
    /\ dpc = "notify"
    /\ notify_all
    /\ dpc' = "join"
    /\ UNCHANGED <<clientVars, poolVars, wtask, call, joined,
                   future, got, execLog, before>>

\* A faulty join, which C9 must tell from the real one: it does not wait
\* for the worker's thread function to return.
DtorJoinNoWait ==
    /\ dpc = "join"
    /\ joined < threads
    /\ joined' = joined + 1
    /\ UNCHANGED <<clientVars, poolVars, workerVars, call, dpc,
                   future, got, execLog, before>>

\* for (std::thread &worker: workers) worker.join(): in vector order,
\* each join returns when that worker's thread function has returned.
DtorJoin ==
    /\ dpc = "join"
    /\ joined < threads
    /\ pc[joined + 1] = "terminated"
    /\ joined' = joined + 1
    /\ UNCHANGED <<clientVars, poolVars, workerVars, call, dpc,
                   future, got, execLog, before>>

\* A faulty destructor, which C16 must tell from the real one: it clears
\* the stop flag at its end.
DtorReturnResets ==
    /\ dpc = "join"
    /\ joined = threads
    /\ dpc' = "returned"
    /\ stop' = FALSE
    /\ UNCHANGED <<clientVars, tasks, mutex, workerVars, call, joined,
                   future, got, execLog, before>>

\* The end of the destructor's body.
DtorReturn ==
    /\ dpc = "join"
    /\ joined = threads
    /\ dpc' = "returned"
    /\ UNCHANGED <<clientVars, poolVars, workerVars, call, joined,
                   future, got, execLog, before>>

Destructor ==
    \/ DtorLock
    \/ DtorStop
    \/ DtorNotifyAll
    \/ DtorJoin
    \/ DtorReturn

\* ------------------------------------------------------- specifications
Next ==
    \/ \E w \in Workers : WorkerStep(w)
    \/ \E t \in TaskIds : Enqueue(t)
    \/ \E t \in TaskIds : Get(t)
    \/ Destructor

Spec == Init /\ [][Next]_vars

\* Fair scheduling: a thread that can take a step takes one, the client
\* threads inside enqueue and inside the destructor included; main() of
\* example.cpp runs to its end; spurious wakeups come to an end.  The
\* harness is never obliged to start a call, to read a future or to
\* destroy the pool.
WorkerRun(w) ==
    /\ w \in Workers
    /\ \/ WLock(w)
       \/ WWait(w)
       \/ WReacquire(w)
       \/ WReturn(w)
       \/ WDequeue(w)
       \/ WSleep(w)
       \/ WTask(w)

EnqueueRun(t) ==
    \/ EnqLock(t)
    \/ EnqThrow(t)
    \/ EnqEmplace(t)
    \/ EnqNotify(t)

DestructorRun ==
    \/ DtorStop
    \/ DtorNotifyAll
    \/ DtorJoin
    \/ DtorReturn

MainRun ==
    /\ prog = "example"
    /\ \/ \E t \in TaskIds : EnqStart(t)
       \/ Get(1)
       \/ DtorLock

\* A running body of the nested program makes its enqueue call.
BodyRun ==
    /\ prog = "nested"
    /\ \E t \in TaskIds : t > 1 /\ EnqStart(t)

Fairness ==
    /\ \A w \in 1..WorkerBound : WF_vars(WorkerRun(w))
    /\ \A t \in TaskIds : WF_vars(EnqueueRun(t))
    /\ WF_vars(DestructorRun)
    /\ WF_vars(MainRun)
    /\ WF_vars(BodyRun)
    /\ <>[][~ \E w \in Workers : WSpurious(w)]_vars

FairSpec == LiveInit /\ [][Next]_vars /\ Fairness

\* ================================================================ claims
Range(q) == {q[i] : i \in DOMAIN q}
Occurrences(q, t) == Cardinality({i \in DOMAIN q : q[i] = t})

\* The workers that hold task t in their local std::function.
Holders(t) == {w \in Workers : wtask[w] = t}

\* A worker has removed t from the queue.
Taken(t) == Holders(t) # {} \/ ExecCount(t) >= 1

Resolved(t) == future[t].state \in {"value", "failure"}

C2_Fifo ==
    \A b \in TaskIds : Taken(b) => \A a \in before[b] : Taken(a)

\* Two workers; B, enqueued after A's call returned, is executing while A
\* is still in the hands of the other worker.
C2_Witness ==
    \E b \in Executing : \E a \in before[b] : a \in Executing

\* C3: an enqueue call that finds the stop flag set ends with the
\* pool-closed error and leaves the queue as it is; a call that ended so
\* has no future, and its task is never on the queue, never in a worker's
\* hands and never executed; and no step lengthens the queue once the
\* stop flag is set.
C3_Step ==
    /\ stop => Len(tasks') <= Len(tasks)
    /\ \A t \in TaskIds :
          /\ (stop /\ call[t] = "crit" /\ call'[t] # "crit")
                => call'[t] = "PoolClosed" /\ tasks' = tasks
          /\ call'[t] = "PoolClosed"
                => /\ future'[t] = NoFuture
                   /\ got'[t] = NoFuture
                   /\ t \notin Range(tasks')
                   /\ ~Taken(t)'

C3_PoolClosed == [][C3_Step]_vars

\* An enqueue call has failed while other tasks were waiting in the queue.
C3_Witness ==
    /\ tasks # <<>>
    /\ \E t \in TaskIds : call[t] = "PoolClosed"

\* C4 as stated: when the destructor has returned, the queue is empty and
\* every accepted work item has been executed.
C4_Original ==
    dpc = "returned" =>
        /\ tasks = <<>>
        /\ \A t \in Accepted : ExecCount(t) = 1

\* C4, amended: the same for a pool constructed with at least one worker.
C4_Drains ==
    (dpc = "returned" /\ threads >= 1) =>
        /\ tasks = <<>>
        /\ \A t \in Accepted : ExecCount(t) = 1 /\ Resolved(t)

\* The destructor has returned and has drained an item enqueued so shortly
\* before teardown that its enqueue call has not yet come to notify_one.
C4_Witness ==
    /\ dpc = "returned"
    /\ threads >= 1
    /\ \E t \in TaskIds : call[t] = "notify" /\ ExecCount(t) = 1

\* A task, once accepted, stays accepted, and a future, once resolved,
\* stays resolved: "every accepted task's handle is eventually resolved"
\* is "again and again, every accepted task's handle is resolved".
AllResolved == \A t \in Accepted : Resolved(t)

\* main() of example.cpp has reached its end with all four tasks
\* completed, each with its own value.
ExampleDone ==
    /\ \A t \in 1..ExampleTasks : future[t] = Value(t) /\ ExecCount(t) = 1
    /\ got[1] = Value(1)
    /\ dpc = "returned"

C6_Step ==
    \A t \in TaskIds :
        (future[t].state = "pending" /\ future'[t].state = "failure") =>
            /\ future'[t] = Failure(t)
            /\ \A u \in TaskIds \ {t} : future'[u] = future[u]
            /\ stop' = stop
            /\ tasks' = tasks
            /\ \E w \in Workers : wtask[w] = t /\ pc'[w] = "lock"
            /\ \A w \in Workers : pc'[w] = "terminated" => pc[w] = "terminated"

C6_Isolation ==
    /\ [][C6_Step]_vars
    /\ []<>((\E t \in TaskIds : future[t].state = "failure")
                => \A u \in Accepted : ExecCount(u) = 1)

\* A pool of one worker has run a task that threw and then the task that
\* was queued behind it.
C6_Witness ==
    /\ threads = 1
    /\ Len(execLog) >= 2
    /\ future[execLog[1]].state = "failure"
    /\ Resolved(execLog[2])

Sequential == \A t \in Accepted : before[t] = {u \in Accepted : u < t}

C8_OneWorker ==
    threads = 1 =>
        /\ Cardinality(Executing) <= 1
        /\ \A i, j \in DOMAIN execLog :
              i < j => execLog[j] \notin before[execLog[i]]
        /\ (dpc = "returned" /\ Sequential) =>
              /\ Range(execLog) = Accepted
              /\ \A i, j \in DOMAIN execLog : i < j => execLog[i] < execLog[j]

\* One worker, tasks 1, 2, 3 submitted one after another: the log after
\* teardown is <<1, 2, 3>>.
C8_Witness ==
    /\ threads = 1
    /\ dpc = "returned"
    /\ before[2] = {1}
    /\ before[3] = {1, 2}
    /\ execLog = <<1, 2, 3>>

\* C9: when the destructor has returned, the stop flag is set, every
\* worker has been joined and is terminated, and no task is executing.
C9_Joined ==
    dpc = "returned" =>
        /\ stop
        /\ joined = threads
        /\ \A w \in Workers : pc[w] = "terminated" /\ wtask[w] = 0
        /\ Executing = {}

\* The destructor of a pool of two workers that have run two tasks has
\* returned.
C9_Witness ==
    /\ dpc = "returned"
    /\ threads >= 2
    /\ Len(execLog) >= 2

\* C10: under fair scheduling with terminating tasks, once the stop flag
\* is set every worker eventually is terminated and the destructor
\* eventually returns.
C10_Terminates ==
    stop ~> /\ \A w \in Workers : pc[w] = "terminated"
            /\ dpc = "returned"

\* The stop flag has just been set while one worker is blocked in wait,
\* one is executing a task and one is about to lock the mutex.
C10_Witness ==
    /\ stop
    /\ dpc = "notify"
    /\ \E w \in Workers : pc[w] = "waiting"
    /\ \E w \in Workers : pc[w] \in {"exec", "slept"}
    /\ \E w \in Workers : pc[w] = "lock"

WaitingPlaces == {"lock", "check", "waiting", "woken"}
ExecutingPlaces == {"exec", "slept"}

C12_Step ==
    \A w \in Workers :
        /\ pc[w] \in WaitingPlaces =>
              pc'[w] \in WaitingPlaces \cup {"exec", "terminated"}
        /\ pc[w] \in ExecutingPlaces =>
              pc'[w] \in ExecutingPlaces \cup {"lock"}
        /\ pc[w] = "terminated" => pc'[w] = "terminated"
        /\ (pc[w] # "terminated" /\ pc'[w] = "terminated") =>
              /\ pc[w] = "check"
              /\ stop
              /\ tasks = <<>>
        /\ (pc[w] \in WaitingPlaces /\ pc'[w] = "exec") =>
              /\ pc[w] = "check"
              /\ tasks # <<>>
              /\ wtask'[w] = Head(tasks)
              /\ tasks' = Tail(tasks)
        /\ (pc[w] = "check" /\ stop /\ tasks # <<>> /\ pc'[w] # pc[w]) =>
              pc'[w] = "exec"

\* C12: every worker starts in Waiting and moves Waiting -> Executing ->
\* Waiting ... -> Terminated: it terminates only from Waiting, only when
\* the stop flag is set and the queue is empty, and stays terminated; it
\* starts executing only by dequeuing the front item; holding the mutex
\* with the stop flag set and the queue non-empty, it dequeues.
C12_StateMachine ==
    /\ \A w \in Workers : pc[w] \in WaitingPlaces
    /\ [][C12_Step]_vars

\* The stop flag is set, items are still queued, one worker is at its
\* exit test and another, woken by the destructor, has dequeued and is
\* executing.
C12_Witness ==
    /\ stop
    /\ dpc = "join"
    /\ tasks # <<>>
    /\ \E w, v \in Workers : pc[w] = "check" /\ pc[v] \in ExecutingPlaces

C13_Step ==
    \A w \in Workers :
        /\ (pc[w] # "waiting" /\ pc'[w] = "waiting") =>
              /\ pc[w] = "check"
              /\ tasks = <<>>
              /\ ~stop
        /\ (pc[w] = "waiting" /\ pc'[w] # "waiting") => pc'[w] = "woken"
        /\ (pc[w] = "woken" /\ pc'[w] # "woken") =>
              /\ pc'[w] = "check"
              /\ mutex' = Worker(w)
        /\ (pc[w] # "exec" /\ pc'[w] = "exec") =>
              /\ pc[w] = "check"
              /\ tasks # <<>>

\* Items are queued and some worker is not executing.
C13_Backlog ==
    /\ tasks # <<>>
    /\ \E w \in Workers : pc[w] \in WaitingPlaces

\* C13: no lost wakeups.  A worker blocks only from the predicate test,
\* with the queue empty and the stop flag unset; every wakeup, spurious
\* or notified, leads back to the predicate test under the mutex; a
\* worker dequeues only from a non-empty queue; and under fair scheduling
\* a state with items queued and some worker not executing is always
\* left again, which only a dequeue can do.
C13_NoLostWakeup ==
    /\ [][C13_Step]_vars
    /\ []<>~C13_Backlog

\* Two pushes have raced: both items are queued, the notify_one of the
\* first has woken the worker, which has not yet retaken the mutex, and
\* the notify_one of the second is still to come.
C13_Witness ==
    /\ Len(tasks) >= 2
    /\ \E w \in Workers : pc[w] = "woken"
    /\ \E t \in TaskIds : call[t] = "notify"

\* The outcome of an enqueue call is decided in its locked block, by whether
\* the destructor has had the mutex before: if so the call fails and the
\* queue is as it was, if not its item is put at the back of the queue;
\* and nothing is accepted after the destructor has returned.
C14_Decided ==
    /\ \A t \in TaskIds :
          /\ call[t] = "crit" =>
                /\ dpc # "locked"
                /\ stop <=> dpc # "alive"
          /\ (call[t] = "crit" /\ call'[t] # "crit") =>
                IF stop
                THEN call'[t] = "PoolClosed" /\ tasks' = tasks
                ELSE call'[t] = "notify" /\ tasks' = Append(tasks, t)
    /\ dpc = "returned" => Accepted' = Accepted

\* The destructor returns with every accepted item executed.
C14_Executed ==
    (dpc # "returned" /\ dpc' = "returned") =>
        \A t \in Accepted : ExecCount(t) = 1 /\ t \notin Range(tasks)

\* C14 as stated: an enqueue that races with teardown either fails without
\* changing the queue or has its item executed before the destructor
\* returns, whichever of the two took the mutex first.
C14_Original == [][C14_Decided /\ C14_Executed]_vars

\* C14, amended: the same, with the accepted item executed before the
\* destructor returns in a pool constructed with at least one worker.
C14_Race == [][C14_Decided /\ (threads >= 1 => C14_Executed)]_vars

\* The destructor has returned while two enqueue calls raced with it: one
\* took the mutex before it, and its item has been executed although the
\* call has not yet come to notify_one; the other took it after and failed.
C14_Witness ==
    /\ dpc = "returned"
    /\ threads >= 1
    /\ \E t, u \in TaskIds :
          /\ call[t] = "notify"
          /\ ExecCount(t) = 1
          /\ call[u] = "PoolClosed"

\* Worker w ends task() of task t in this step.
Completes(w, t) ==
    /\ pc[w] \in ExecutingPlaces
    /\ wtask[w] = t
    /\ pc'[w] = "lock"

C15_Step ==
    \A t \in TaskIds :
        /\ (future[t] = NoFuture /\ future'[t] # NoFuture) =>
              /\ future'[t] = Pending
              /\ call[t] = "none"
              /\ call'[t] = "lock"
        /\ (future[t] = Pending /\ future'[t] # Pending) =>
              \/ /\ future'[t] \in {Value(t), Failure(t)}
                 /\ \E w \in Workers : Completes(w, t)
              \/ /\ future'[t] = NoFuture
                 /\ call'[t] = "PoolClosed"
        /\ Resolved(t) => future'[t] = future[t]
        /\ \A w \in Workers :
              Completes(w, t) => future[t] = Pending /\ Resolved(t)'

C16_Step ==
    /\ stop => stop'
    /\ stop' # stop =>
          /\ dpc = "locked"
          /\ dpc' = "notify"
          /\ mutex = Dtor
    /\ (call' # call \/ pc' # pc \/ future' # future \/ got' # got) =>
          stop' = stop

\* C16: the stop flag starts false; the only step that changes it is the
\* destructor's assignment under the mutex, which sets it; once set it
\* stays set; no step of an enqueue call, of a worker (the end of a task,
\* by return or by exception, included) or of get() changes it.
C16_Monotonic ==
    /\ ~stop
    /\ [][C16_Step]_vars

\* The destructor has just set the stop flag, after one task has returned
\* and another has thrown.
C16_Witness ==
    /\ stop
    /\ dpc = "notify"
    /\ \E t, u \in TaskIds :
          future[t].state = "value" /\ future[u].state = "failure"

\* The workers inside task().
ExecutingWorkers == {w \in Workers : pc[w] \in ExecutingPlaces}

C17_AtMostN ==
    /\ Cardinality(Executing) <= threads
    /\ Cardinality(Executing) = Cardinality(ExecutingWorkers)
    /\ \A w \in Workers :
          IF w \in ExecutingWorkers
          THEN wtask[w] \in 1..calls /\ ExecCount(wtask[w]) = 0
          ELSE wtask[w] = 0

C17_Step ==
    \A w \in Workers : \A t \in TaskIds :
        Completes(w, t) => wtask'[w] = 0 /\ Len(execLog') = Len(execLog) + 1

\* C17: at any time the tasks in execution are at most as many as the
\* workers, each executing worker holds one task no other worker holds and
\* each other worker none; a worker that ends a task is back at the top of
\* its loop with its hands empty; and so, under fair scheduling, a pool
\* with at least one worker completes all accepted tasks, however many
\* more than workers there are.
C17_Reuse ==
    /\ []C17_AtMostN
    /\ [][C17_Step]_vars
    /\ []<>(threads >= 1 => \A t \in Accepted : ExecCount(t) = 1)

\* Every worker of the pool is executing, and more tasks have been taken
\* up than there are workers: a worker is back for a further task.
C17_Witness ==
    /\ threads >= 1
    /\ Cardinality(Executing) = threads
    /\ Len(execLog) + Cardinality(Executing) > threads

\* The mutex is free or held by a thread inside one of the three locked
\* blocks: never by a worker inside task().
C18_MutexHolder ==
    /\ mutex \in {Free, Dtor} \cup {Worker(w) : w \in Workers}
                              \cup {Caller(t) : t \in TaskIds}
    /\ mutex = Dtor => dpc = "locked"
    /\ \A w \in Workers : mutex = Worker(w) => pc[w] = "check"
    /\ \A t \in TaskIds : mutex = Caller(t) => call[t] = "crit"

\* While a task is executing, a step that takes the mutex is taken by
\* whoever asks for it when it is free, and an enqueue call made on a pool
\* that is not stopped, by a task body too, is accepted.
C18_Step ==
    /\ \A t \in TaskIds :
          (call[t] = "crit" /\ ~stop /\ call'[t] # "crit") =>
              call'[t] = "notify"
    /\ (mutex = Free /\ mutex' # Free) =>
          \/ \E w \in Workers : pc[w] = "lock" /\ mutex' = Worker(w)
          \/ \E w \in Workers : pc[w] = "woken" /\ mutex' = Worker(w)
          \/ \E t \in TaskIds : call[t] = "lock" /\ mutex' = Caller(t)
          \/ dpc = "alive" /\ mutex' = Dtor

\* The nested program is at rest: no enqueue call is under way, every
\* accepted task has been completed, and every completed task has made
\* its own enqueue call.
C18_NestedDone ==
    prog = "nested" =>
        /\ InFlight = {}
        /\ \A t \in Accepted :
              /\ Resolved(t)
              /\ t < calls => call[t + 1] \in {"handle", "PoolClosed"}

\* C18: the mutex is never held during task(); an enqueue call on a pool
\* that is not stopped is accepted, whoever makes it; and a program whose
\* task bodies call enqueue on their own pool does not deadlock: under
\* fair scheduling every such call ends and every accepted task, parent
\* or child, is completed.
C18_NoMutexInTask ==
    /\ []C18_MutexHolder
    /\ [][C18_Step]_vars
    /\ []<>C18_NestedDone

\* The body of the first task, run by the only worker of the pool, has
\* called enqueue and holds the future of the second task, which is on
\* the queue, while the first is still executing.
C18_Witness ==
    /\ prog = "nested"
    /\ threads = 1
    /\ ~stop
    /\ 1 \in Executing
    /\ call[2] = "handle"
    /\ tasks = <<2>>

====
